---------------------------- MODULE Spec2Model ----------------------------
(***************************************************************************)
(* Calculator (src/src/calculator.py): infix text -> tokens -> Reverse     *)
(* Polish Notation (shunting yard with a unary-minus flag) -> value on a   *)
(* stack machine.                                                          *)
(*                                                                         *)
(* Representation.  A Python str is a sequence of one-character strings,   *)
(* so "-5" is << "-", "5" >> and the token '+' is << "+" >>.  A Python     *)
(* list is a sequence whose last element is the top of the stack.  A float *)
(* is an exact rational << n, d >> in lowest terms with d > 0: rounding    *)
(* and overflow of 64-bit floats are outside the model, and operator.pow   *)
(* is modelled for integral exponents only (TLC stops on any other).       *)
(***************************************************************************)
EXTENDS Integers, Sequences, FiniteSets, TLC

VARIABLES
    precedence,     \* self.precedence
    operators,      \* self.operators (the name of the function of each symbol)
    pc,             \* "idle" | "convert" | "evaluate" | "done" | "failed"
    entry,          \* the public method that was called
    expression,     \* the argument of calculate / to_reverse_polish_notation
    tokens,         \* to_reverse_polish_notation: tokens
    pos,            \* index of the next token of the for loop (1-based)
    output,         \* to_reverse_polish_notation: output
    stack,          \* to_reverse_polish_notation: stack
    may_be_unary,   \* to_reverse_polish_notation: may_be_unary
    rpn,            \* evaluate_rpn: rpn
    rpos,           \* index of the next rpn token of the for loop (1-based)
    estack,         \* evaluate_rpn: stack
    result,         \* the value returned, None until then
    error,          \* the exception raised, None until then
    history         \* observer: the outcome of the first call made with each input

vars == << precedence, operators, pc, entry, expression, tokens, pos, output,
           stack, may_be_unary, rpn, rpos, estack, result, error, history >>

(* None: the empty box.  A returned value x is the box << x >>; an         *)
(* exception is its << type, message >>.                                   *)
None == << >>
Some(x) == << x >>
NoCall == "none"

----------------------------------------------------------------------------
(* Exceptions: the type and the message of each raise statement.           *)

EmptyExpression       == << "ValueError", "Expression cannot be empty" >>
MismatchedParentheses == << "ValueError", "Mismatched parentheses" >>
InsufficientUnary     == << "ValueError", "Insufficient operands for unary operator" >>
InsufficientBinary    == << "ValueError", "Insufficient operands for binary operator" >>
DivisionByZero        == << "ZeroDivisionError", "Division by zero" >>
InvalidExpression     == << "ValueError", "Invalid expression" >>
(* raised by the operator module itself, not by a raise statement *)
FloatDivisionByZero   == << "ZeroDivisionError", "float division by zero" >>
FloatModulo           == << "ZeroDivisionError", "float modulo" >>
ZeroToNegativePower   == << "ZeroDivisionError", "0.0 cannot be raised to a negative power" >>

----------------------------------------------------------------------------
(* Exact rationals standing for floats.                                    *)

Abs(n) == IF n < 0 THEN -n ELSE n

RECURSIVE GCD(_, _)
GCD(a, b) == IF b = 0 THEN a ELSE GCD(b, a % b)

Norm(n, d) ==
    LET s == IF d < 0 THEN -1 ELSE 1
        g == GCD(Abs(n), Abs(d))
    IN  << (s * n) \div g, (s * d) \div g >>

RECURSIVE IPow(_, _)
IPow(b, e) == IF e = 0 THEN 1 ELSE b * IPow(b, e - 1)

Zero == << 0, 1 >>
Whole(n) == << n, 1 >>

add(l, r) == Norm(l[1] * r[2] + r[1] * l[2], l[2] * r[2])
sub(l, r) == Norm(l[1] * r[2] - r[1] * l[2], l[2] * r[2])
mul(l, r) == Norm(l[1] * r[1], l[2] * r[2])
truediv(l, r) == Norm(l[1] * r[2], l[2] * r[1])
neg(x) == << -x[1], x[2] >>
(* float % float: the result takes the sign of the divisor, l - r*floor(l/r) *)
Floor(q) == q[1] \div q[2]
mod(l, r) == sub(l, mul(r, Whole(Floor(truediv(l, r)))))
(* float ** float for an integral exponent *)
pow(l, r) ==
    CASE r[2] = 1 /\ r[1] >= 0 -> << IPow(l[1], r[1]), IPow(l[2], r[1]) >>
      [] r[2] = 1 /\ r[1] < 0  -> Norm(IPow(l[2], -r[1]), IPow(l[1], -r[1]))

(* self.operators[token](left, right): the value, or the exception the     *)
(* operator module raises.                                                 *)
ApplyBinary(fn, left, right) ==
    CASE fn = "add" -> [val |-> add(left, right), err |-> None]
      [] fn = "sub" -> [val |-> sub(left, right), err |-> None]
      [] fn = "mul" -> [val |-> mul(left, right), err |-> None]
      [] fn = "truediv" ->
            IF right = Zero THEN [val |-> Zero, err |-> FloatDivisionByZero]
            ELSE [val |-> truediv(left, right), err |-> None]
      [] fn = "mod" ->
            IF right = Zero THEN [val |-> Zero, err |-> FloatModulo]
            ELSE [val |-> mod(left, right), err |-> None]
      [] fn = "pow" ->
            IF left = Zero /\ right[1] < 0
            THEN [val |-> Zero, err |-> ZeroToNegativePower]
            ELSE [val |-> pow(left, right), err |-> None]

----------------------------------------------------------------------------
(* Strings and tokens.                                                     *)

Digits == {"0", "1", "2", "3", "4", "5", "6", "7", "8", "9"}
Whitespace == {" ", "\t", "\n", "\r"}

Last(s) == s[Len(s)]
Front(s) == SubSeq(s, 1, Len(s) - 1)

(* expression.replace(' ', '') *)
RemoveSpaces(s) == SelectSeq(s, LAMBDA c : c # " ")

(* a slip: only the empty string is refused *)
IsBlankEmptyOnly(s) == s = << >>

(* not expression or expression.strip() == "" *)
IsBlank(s) == s = << >> \/ \A k \in 1..Len(s) : s[k] \in Whitespace

(* _is_operator *)
IsOperator(token) ==
    token \in DOMAIN precedence
        \/ token \in {<< "-" >>, << "+" >>, << "*" >>, << "/" >>, << "%" >>, << "^" >>}

(* one character of _tokenize's while loop, then the rest *)
RECURSIVE TokenizeFrom(_, _, _, _)
TokenizeFrom(e, i, toks, current) ==
    IF i > Len(e)
    THEN IF current # << >> THEN Append(toks, current) ELSE toks
    ELSE LET char == e[i] IN
         IF char \in Digits \/ char = "."
         THEN TokenizeFrom(e, i + 1, toks, Append(current, char))
         ELSE LET flushed == IF current # << >> THEN Append(toks, current) ELSE toks
                  tok == IF char = "-" /\ (i = 1 \/ e[i - 1] = "("
                                             \/ IsOperator(<< e[i - 1] >>))
                         THEN << "-" >>
                         ELSE << char >>
              IN  TokenizeFrom(e, i + 1, Append(flushed, tok), << >>)

_tokenize(e) == TokenizeFrom(RemoveSpaces(e), 1, << >>, << >>)

(* float(token) succeeds: digits with at most one decimal point.  The other *)
(* forms float() accepts (a sign, an exponent, inf, nan, underscores) are   *)
(* never tokens here: _tokenize groups only digits and dots.                *)
CountDots(token) == Cardinality({k \in 1..Len(token) : token[k] = "."})
IsNumber(token) ==
    /\ token # << >>
    /\ \A k \in 1..Len(token) : token[k] \in Digits \cup {"."}
    /\ CountDots(token) <= 1
    /\ \E k \in 1..Len(token) : token[k] \in Digits

DigitValue(c) == CHOOSE n \in 0..9 : ToString(n) = c

RECURSIVE DigitsValue(_)
DigitsValue(ds) ==
    IF ds = << >> THEN 0 ELSE 10 * DigitsValue(Front(ds)) + DigitValue(Last(ds))

(* float(token) *)
FloatOf(token) ==
    LET ds == SelectSeq(token, LAMBDA c : c # ".")
        fraction == IF CountDots(token) = 0 THEN 0
                    ELSE Len(token) - (CHOOSE k \in 1..Len(token) : token[k] = ".")
    IN  Norm(DigitsValue(ds), IPow(10, fraction))

_get_precedence(op) == IF op \in DOMAIN precedence THEN precedence[op] ELSE 0


----------------------------------------------------------------------------
(* Calculator.__init__ *)

InitPrecedence ==
    (<< "+" >> :> 1) @@ (<< "-" >> :> 1) @@ (<< "*" >> :> 2) @@ (<< "/" >> :> 2)
        @@ (<< "%" >> :> 2) @@ (<< "^" >> :> 3) @@ (<< "u" >> :> 4)

InitOperators ==
    (<< "+" >> :> "add") @@ (<< "-" >> :> "sub") @@ (<< "*" >> :> "mul")
        @@ (<< "/" >> :> "truediv") @@ (<< "%" >> :> "mod") @@ (<< "^" >> :> "pow")
        @@ (<< "u" >> :> "neg")

Locals ==
    /\ entry = NoCall /\ expression = << >>
    /\ tokens = << >> /\ pos = 1 /\ output = << >> /\ stack = << >>
    /\ may_be_unary = TRUE
    /\ rpn = << >> /\ rpos = 1 /\ estack = << >>
    /\ result = None /\ error = None

Init ==
    /\ precedence = InitPrecedence
    /\ operators = InitOperators
    /\ pc = "idle"
    /\ Locals
    /\ history = << >>

----------------------------------------------------------------------------
(* to_reverse_polish_notation *)

(* line 88: a minus where an operand is expected is the unary operator *)
UnaryRewrite(may, token) == IF may /\ token = << "-" >> THEN << "u" >> ELSE token

(* a slip: a strict comparison, which leaves equal precedences unpopped *)
ShouldPopStrict(token, top) ==
    IsOperator(top) /\ _get_precedence(token) < _get_precedence(top)

(* lines 92-93: the stack top leaves for the output before token is pushed *)
ShouldPop(token, top) ==
    IsOperator(top) /\ _get_precedence(token) <= _get_precedence(top)

(* lines 92-94: the while loop of an operator token *)
RECURSIVE PopOperators(_, _, _)
PopOperators(token, stk, out) ==
    IF stk # << >> /\ ShouldPop(token, Last(stk))
    THEN PopOperators(token, Front(stk), Append(out, Last(stk)))
    ELSE [stack |-> stk, output |-> out]

(* lines 103-104: the while loop of a closing parenthesis *)
RECURSIVE PopToParen(_, _)
PopToParen(stk, out) ==
    IF stk # << >> /\ Last(stk) # << "(" >>
    THEN PopToParen(Front(stk), Append(out, Last(stk)))
    ELSE [stack |-> stk, output |-> out]

Reverse(s) == [k \in 1..Len(s) |-> s[Len(s) + 1 - k]]

(* a slip: the final loop pops whatever is left, "(" included *)
DrainUnchecked(stk, out) == [stack |-> << >>, output |-> out \o Reverse(stk), err |-> None]

(* lines 113-116: the final while loop; raises at the first "(" it meets *)
RECURSIVE Drain(_, _)
Drain(stk, out) ==
    IF stk = << >> THEN [stack |-> stk, output |-> out, err |-> None]
    ELSE IF Last(stk) = << "(" >>
    THEN [stack |-> stk, output |-> out, err |-> MismatchedParentheses]
    ELSE Drain(Front(stk), Append(out, Last(stk)))

(* no frame of to_reverse_polish_notation / evaluate_rpn exists (yet) *)
NoConvertFrame ==
    /\ tokens' = << >> /\ pos' = 1 /\ output' = << >> /\ stack' = << >>
    /\ may_be_unary' = TRUE
NoEvaluateFrame == rpn' = << >> /\ rpos' = 1 /\ estack' = << >>

(* a slip: output and stack are kept on the object instead of made per call *)
BeginConvertOnObject(e) ==
    /\ UNCHANGED << output, stack >>
    /\ tokens' = _tokenize(e)
    /\ may_be_unary' = TRUE
    /\ pos' = 1

(* lines 77-80 *)
BeginConvert(e) ==
    /\ output' = << >>
    /\ stack' = << >>
    /\ tokens' = _tokenize(e)
    /\ may_be_unary' = TRUE
    /\ pos' = 1

(* calculate(expression), lines 50-57 *)
Calculate(e) ==
    /\ pc = "idle"
    /\ entry' = "calculate"
    /\ expression' = e
    /\ result' = None
    /\ NoEvaluateFrame
    /\ IF IsBlank(e)
       THEN /\ error' = EmptyExpression
            /\ pc' = "failed"
            /\ NoConvertFrame
       ELSE /\ pc' = "convert"
            /\ BeginConvert(e)
            /\ error' = None
    /\ UNCHANGED << precedence, operators, history >>

(* to_reverse_polish_notation(expression) called directly *)
ToReversePolishNotation(e) ==
    /\ pc = "idle"
    /\ entry' = "to_reverse_polish_notation"
    /\ expression' = e
    /\ pc' = "convert"
    /\ result' = None /\ error' = None
    /\ NoEvaluateFrame
    /\ BeginConvert(e)
    /\ UNCHANGED << precedence, operators, history >>

(* one iteration of the for loop, lines 82-110 *)
ConvertToken ==
    /\ pc = "convert"
    /\ pos <= Len(tokens)
    /\ pos' = pos + 1
    /\ LET token == tokens[pos] IN
       IF IsNumber(token)
       THEN /\ output' = Append(output, token)
            /\ may_be_unary' = FALSE
            /\ UNCHANGED << stack, pc, error >>
       ELSE IF IsOperator(token)
       THEN LET op == UnaryRewrite(may_be_unary, token)
                popped == PopOperators(op, stack, output)
            IN  /\ output' = popped.output
                /\ stack' = Append(popped.stack, op)
                /\ may_be_unary' = TRUE
                /\ UNCHANGED << pc, error >>
       ELSE IF token = << "(" >>
       THEN /\ stack' = Append(stack, token)
            /\ may_be_unary' = TRUE
            /\ UNCHANGED << output, pc, error >>
       ELSE IF token = << ")" >>
       THEN LET popped == PopToParen(stack, output) IN
            IF popped.stack = << >>
            THEN /\ error' = MismatchedParentheses
                 /\ pc' = "failed"
                 /\ output' = popped.output
                 /\ stack' = popped.stack
                 /\ UNCHANGED may_be_unary
            ELSE /\ output' = popped.output
                 /\ stack' = Front(popped.stack)
                 /\ may_be_unary' = FALSE
                 /\ UNCHANGED << pc, error >>
       ELSE UNCHANGED << output, stack, may_be_unary, pc, error >>
    /\ UNCHANGED << precedence, operators, entry, expression, tokens, rpn, rpos,
                    estack, result, history >>

(* lines 112-118, and for calculate lines 57-61: the output becomes rpn *)
ConvertReturn ==
    /\ pc = "convert"
    /\ pos > Len(tokens)
    /\ LET drained == Drain(stack, output) IN
       /\ output' = drained.output
       /\ stack' = drained.stack
       /\ IF drained.err # None
          THEN /\ error' = drained.err
               /\ pc' = "failed"
               /\ UNCHANGED << rpn, rpos, estack, result >>
          ELSE IF entry = "calculate"
          THEN /\ rpn' = drained.output
               /\ rpos' = 1
               /\ estack' = << >>
               /\ pc' = "evaluate"
               /\ UNCHANGED << result, error >>
          ELSE /\ result' = Some(drained.output)
               /\ pc' = "done"
               /\ UNCHANGED << rpn, rpos, estack, error >>
    /\ UNCHANGED << precedence, operators, entry, expression, tokens, pos,
                    may_be_unary, history >>


----------------------------------------------------------------------------
(* evaluate_rpn *)

(* a slip: the check before the division is left out *)
DivisionGuardMissing(token, right) == FALSE

(* line 150: the check made before the division is invoked *)
DivisionGuard(token, right) == token = << "/" >> /\ right = Zero

(* a slip: the unary operator is checked like a binary one *)
InsufficientAsBinary(token, stk) == Len(stk) < 2

(* lines 138 and 145: too few values on the stack for the operator *)
Insufficient(token, stk) ==
    IF token = << "u" >> THEN stk = << >> ELSE Len(stk) < 2

(* evaluate_rpn(rpn) called directly, line 130 *)
EvaluateRpn(r) ==
    /\ pc = "idle"
    /\ entry' = "evaluate_rpn"
    /\ expression' = << >>
    /\ result' = None /\ error' = None
    /\ NoConvertFrame
    /\ rpn' = r
    /\ rpos' = 1
    /\ estack' = << >>
    /\ pc' = "evaluate"
    /\ UNCHANGED << precedence, operators, history >>

(* one iteration of the for loop, lines 132-154 *)
EvalToken ==
    /\ pc = "evaluate"
    /\ rpos <= Len(rpn)
    /\ rpos' = rpos + 1
    /\ LET token == rpn[rpos] IN
       IF IsNumber(token)
       THEN /\ estack' = Append(estack, FloatOf(token))
            /\ UNCHANGED << pc, error >>
       ELSE IF IsOperator(token)
       THEN IF token = << "u" >>
            THEN IF Insufficient(token, estack)
                 THEN /\ error' = InsufficientUnary
                      /\ pc' = "failed"
                      /\ UNCHANGED estack
                 ELSE /\ estack' = Append(Front(estack), neg(Last(estack)))
                      /\ UNCHANGED << pc, error >>
            ELSE IF Insufficient(token, estack)
                 THEN /\ error' = InsufficientBinary
                      /\ pc' = "failed"
                      /\ UNCHANGED estack
                 ELSE LET right == Last(estack)
                          left == Last(Front(estack))
                          rest == Front(Front(estack))
                      IN  IF DivisionGuard(token, right)
                          THEN /\ error' = DivisionByZero
                               /\ pc' = "failed"
                               /\ estack' = rest
                          ELSE LET r == ApplyBinary(operators[token], left, right) IN
                               IF r.err # None
                               THEN /\ error' = r.err
                                    /\ pc' = "failed"
                                    /\ estack' = rest
                               ELSE /\ estack' = Append(rest, r.val)
                                    /\ UNCHANGED << pc, error >>
       ELSE UNCHANGED << estack, pc, error >>
    /\ UNCHANGED << precedence, operators, entry, expression, tokens, pos, output,
                    stack, may_be_unary, rpn, result, history >>

(* lines 156-159 *)
EvalReturn ==
    /\ pc = "evaluate"
    /\ rpos > Len(rpn)
    /\ IF Len(estack) # 1
       THEN /\ error' = InvalidExpression
            /\ pc' = "failed"
            /\ UNCHANGED result
       ELSE /\ result' = Some(estack[1])
            /\ pc' = "done"
            /\ UNCHANGED error
    /\ UNCHANGED << precedence, operators, entry, expression, tokens, pos, output,
                    stack, may_be_unary, rpn, rpos, estack, history >>

(* the argument and the outcome of the call in progress *)
CallKey == << entry, IF entry = "evaluate_rpn" THEN rpn ELSE expression >>
Outcome == << result, error >>

(* the value or the exception reaches the caller, who may call again; the  *)
(* observer notes the outcome of the first call made with this argument    *)
Return ==
    /\ pc \in {"done", "failed"}
    /\ pc' = "idle"
    /\ history' = IF CallKey \in DOMAIN history THEN history
                  ELSE history @@ (CallKey :> Outcome)
    /\ UNCHANGED << precedence, operators, entry, expression, tokens, pos, output,
                    stack, may_be_unary, rpn, rpos, estack, result, error >>

----------------------------------------------------------------------------
(* One call of calculate on every text of at most MaxLen characters.       *)

MaxLen == 4

SeqsUpTo(S, n) == UNION {[1..k -> S] : k \in 0..n}

Chars == {"2", "0", ".", "+", "-", "/", "(", ")", "a", "u", " "}
Expressions == SeqsUpTo(Chars, MaxLen)

CalculateCall == pc = "idle" /\ \E e \in Expressions : Calculate(e)

Next ==
    \/ CalculateCall
    \/ ConvertToken
    \/ ConvertReturn
    \/ EvalToken
    \/ EvalReturn

Spec == Init /\ [][Next]_vars

(* evaluate_rpn on token sequences of its own, and calculate on            *)
(* parenthesis-free runs of operators.  A sequence holds "/" and "%" or    *)
(* "^", not both: pow is modelled for integral exponents.                  *)
MaxRpn == 4

RpnTokens ==
    {<< "0" >>, << "2" >>, << "3" >>, << "1", ".", "5" >>,
     << "+" >>, << "-" >>, << "*" >>, << "/" >>, << "%" >>, << "u" >>}
PowTokens == {<< "0" >>, << "2" >>, << "^" >>, << "u" >>}
RpnInputs == SeqsUpTo(RpnTokens, MaxRpn) \cup SeqsUpTo(PowTokens, MaxRpn)

OperatorRuns == SeqsUpTo({"2", "3", "+", "-", "*"}, MaxLen)

EvaluateRpnCall == pc = "idle" /\ \E r \in RpnInputs : EvaluateRpn(r)
OperatorRunCall == pc = "idle" /\ \E e \in OperatorRuns : Calculate(e)

NextRpn ==
    \/ EvaluateRpnCall
    \/ OperatorRunCall
    \/ ConvertToken
    \/ ConvertReturn
    \/ EvalToken
    \/ EvalReturn

SpecRpn == Init /\ [][NextRpn]_vars

(* One call of calculate on texts with "^" and unary minus; no number has  *)
(* two digits, which keeps the powers small.                               *)
MaxPowLen == 5

PowChars == {"2", "3", "^", "-", "(", ")"}
PowExpressions ==
    {e \in SeqsUpTo(PowChars, MaxPowLen) :
        \A k \in 1..(Len(e) - 1) : ~(e[k] \in Digits /\ e[k + 1] \in Digits)}

PowCall == pc = "idle" /\ \E e \in PowExpressions : Calculate(e)

NextPow ==
    \/ PowCall
    \/ ConvertToken
    \/ ConvertReturn
    \/ EvalToken
    \/ EvalReturn

SpecPow == Init /\ [][NextPow]_vars

(* One call of calculate on every well-formed expression of at most MaxOps *)
(* binary operators over the numerals 2 and 3, every operand and the whole *)
(* expression with or without parentheses around it.                       *)
MaxOps == 2

Numerals == {"2", "3"}
BinaryOperators == {"+", "-", "*", "/", "%"}

Parenthesised(S) == {<< "(" >> \o e \o << ")" >> : e \in S}
Joined(L, R) == {l \o << op >> \o r : l \in L, r \in R, op \in BinaryOperators}

(* the expressions with exactly 0, 1, 2 and 3 operators, and the operands  *)
(* they make: themselves, with or without parentheses                      *)
Operators0 == {<< d >> : d \in Numerals}
Operators1 == Joined(Operators0, Operators0)
Operands1 == Operators1 \cup Parenthesised(Operators1)
Operators2 == Joined(Operators0, Operands1) \cup Joined(Operands1, Operators0)
Operands2 == Operators2 \cup Parenthesised(Operators2)
Operators3 ==
    Joined(Operators0, Operands2) \cup Joined(Operands1, Operands1)
        \cup Joined(Operands2, Operators0)
Operands3 == Operators3 \cup Parenthesised(Operators3)

WithOperators(n) ==
    CASE n = 0 -> Operators0
      [] n = 1 -> Operands1
      [] n = 2 -> Operands2
      [] n = 3 -> Operands3

ArithExpressions == UNION {WithOperators(n) : n \in 0..MaxOps}

ArithCall == pc = "idle" /\ \E e \in ArithExpressions : Calculate(e)

NextArith ==
    \/ ArithCall
    \/ ConvertToken
    \/ ConvertReturn
    \/ EvalToken
    \/ EvalReturn

SpecArith == Init /\ [][NextArith]_vars

(* Any number of calls, one after the other, on one Calculator. *)
SessionExpressions ==
    {<< "2" >>, << "(", "2" >>, << "2", ")" >>, << "2", "-", "3" >>,
     << "2", "/", "0" >>, << " " >>}
SessionRpns == {<< << "2" >>, << "3" >>, << "-" >> >>, << << "u" >> >>}

SessionCalculate == pc = "idle" /\ \E e \in SessionExpressions : Calculate(e)
SessionToRpn == pc = "idle" /\ \E e \in {<< "2", "-", "3" >>, << "(", "2" >>} :
                                   ToReversePolishNotation(e)
SessionEvaluateRpn == pc = "idle" /\ \E r \in SessionRpns : EvaluateRpn(r)

NextSession ==
    \/ SessionCalculate
    \/ SessionToRpn
    \/ SessionEvaluateRpn
    \/ ConvertToken
    \/ ConvertReturn
    \/ EvalToken
    \/ EvalReturn
    \/ Return

SpecSession == Init /\ [][NextSession]_vars

----------------------------------------------------------------------------
(* Reference notions the properties are stated with; none is used by the   *)
(* actions above.                                                          *)

Count(s, c, k) == Cardinality({j \in 1..k : s[j] = c})

(* the text is empty or holds white space only *)
BlankText(e) == \A k \in 1..Len(e) : e[k] \in {" ", "\t", "\n", "\r"}

(* the number of "(" still open after the first k elements of s *)
OpenAfter(s, open, close, k) == Count(s, open, k) - Count(s, close, k)

(* the parentheses of the text are balanced *)
ParenBalanced(e) ==
    /\ \A k \in 1..Len(e) : OpenAfter(e, "(", ")", k) >= 0
    /\ OpenAfter(e, "(", ")", Len(e)) = 0

TokenOpenAfter(k) == OpenAfter(tokens, << "(" >>, << ")" >>, k)

Recognized(token) ==
    IsNumber(token) \/ IsOperator(token) \/ token \in {<< "(" >>, << ")" >>}

Converting == entry \in {"calculate", "to_reverse_polish_notation"}

----------------------------------------------------------------------------
(* C4: the conversion raises "Mismatched parentheses" exactly when the     *)
(* parentheses of the input are unbalanced: at the first ")" that no open  *)
(* "(" precedes, or after the scan when a "(" was never closed; an input   *)
(* with balanced parentheses never raises it, whatever its other tokens.   *)
C4_MismatchedIffUnbalanced ==
    Converting /\ ~BlankText(expression) =>
        /\ pc = "convert" => \A k \in 1..(pos - 1) : TokenOpenAfter(k) >= 0
        /\ error = MismatchedParentheses =>
              /\ ~ParenBalanced(expression)
              /\ \A k \in 1..(pos - 2) : TokenOpenAfter(k) >= 0
              /\ \/ /\ pos - 1 <= Len(tokens)
                    /\ tokens[pos - 1] = << ")" >>
                    /\ TokenOpenAfter(pos - 1) < 0
                 \/ /\ pos > Len(tokens)
                    /\ TokenOpenAfter(Len(tokens)) > 0
        /\ (pc \in {"evaluate", "done"} \/ (pc = "failed" /\ error # MismatchedParentheses))
              => ParenBalanced(expression)
        /\ (pc = "failed" /\ ~ParenBalanced(expression)) => error = MismatchedParentheses

(* "(2+2" is rejected after the scan *)
C4_Witness ==
    /\ expression = << "(", "2", "+", "2" >>
    /\ pc = "failed"
    /\ error = MismatchedParentheses
    /\ pos > Len(tokens)

----------------------------------------------------------------------------
(* C6: an expression holding a token that is neither a number, an operator *)
(* nor a parenthesis is rejected during the conversion, so calculate never *)
(* goes on to evaluate it or to return a number for it.                    *)
C6_UnrecognizedTokenRejected ==
    (entry = "calculate" /\ pc = "done") =>
        \A k \in 1..Len(tokens) : Recognized(tokens[k])

----------------------------------------------------------------------------
(* C3: a "-" becomes the unary operator exactly when it is the first token *)
(* or directly follows an operator or "(", and stays the binary operator   *)
(* when it directly follows a number or ")".                               *)
C3_UnaryExactlyAfterOperator ==
    (Converting /\ pc = "convert" /\ pos > 1 /\ tokens[pos - 1] = << "-" >>) =>
        /\ Last(stack) \in {<< "u" >>, << "-" >>}
        /\ Last(stack) = << "u" >> <=>
              \/ pos - 1 = 1
              \/ IsOperator(tokens[pos - 2])
              \/ tokens[pos - 2] = << "(" >>

----------------------------------------------------------------------------
(* a text of minus signs followed by one digit *)
LeadingMinuses(e) == Count(e, "-", Len(e))
IsNegationChain(e) ==
    /\ Len(e) >= 2
    /\ e[Len(e)] \in Digits
    /\ \A k \in 1..(Len(e) - 1) : e[k] = "-"

(* C10: chained unary minuses apply innermost first: an even number of     *)
(* leading minuses before a number leaves its value, an odd number negates *)
(* it, so calculate("--2") returns 2.                                      *)
C10_NegationChain ==
    (entry = "calculate" /\ IsNegationChain(expression) /\ pc \in {"done", "failed"}) =>
        /\ pc = "done"
        /\ result = IF LeadingMinuses(expression) % 2 = 0
                    THEN Some(FloatOf(<< Last(expression) >>))
                    ELSE Some(neg(FloatOf(<< Last(expression) >>)))

----------------------------------------------------------------------------
(* what evaluate_rpn can raise *)
EvaluationErrors ==
    {InsufficientUnary, InsufficientBinary, DivisionByZero, InvalidExpression,
     FloatDivisionByZero, FloatModulo, ZeroToNegativePower}

(* C7: calculate stops at the first failing check: a blank input fails     *)
(* with "Expression cannot be empty" before anything is tokenized; the     *)
(* whole conversion runs before the first evaluation step, so unbalanced   *)
(* parentheses are reported in preference to any evaluation error; an      *)
(* evaluation error needs a conversion that succeeded; nothing is returned *)
(* after an error.                                                         *)
C7_FailFastOrder ==
    entry = "calculate" =>
        /\ BlankText(expression) =>
              /\ pc = "failed" /\ error = EmptyExpression
              /\ tokens = << >> /\ pos = 1 /\ output = << >> /\ stack = << >>
        /\ error = EmptyExpression => BlankText(expression)
        /\ pc = "convert" => rpn = << >> /\ rpos = 1 /\ estack = << >> /\ error = None
        /\ error \in {EmptyExpression, MismatchedParentheses} =>
              rpn = << >> /\ rpos = 1 /\ estack = << >>
        /\ (rpos > 1 \/ pc \in {"evaluate", "done"} \/ error \in EvaluationErrors) =>
              /\ pos = Len(tokens) + 1
              /\ tokens = _tokenize(expression)
              /\ rpn = output
              /\ ParenBalanced(expression)
        /\ (~BlankText(expression) /\ ~ParenBalanced(expression) /\ pc = "failed") =>
              error = MismatchedParentheses
        /\ error # None <=> pc = "failed"
        /\ result # None <=> pc = "done"

(* "2/0)": the stray ")" is reported, the division by zero never runs *)
C7_Witness ==
    /\ expression = << "2", "/", "0", ")" >>
    /\ pc = "failed"
    /\ error = MismatchedParentheses
    /\ rpos = 1

----------------------------------------------------------------------------
(* a step of evaluate_rpn that applies "/" to two operands *)
C5_DivisionStep ==
    (pc = "evaluate" /\ rpos <= Len(rpn) /\ rpn[rpos] = << "/" >> /\ Len(estack) >= 2) =>
        IF Last(estack) = Zero
        THEN pc' = "failed" /\ error' = DivisionByZero /\ result' = None
        ELSE /\ pc' = "evaluate" /\ error' = None
             /\ Len(estack') = Len(estack) - 1
             /\ Front(estack') = Front(Front(estack))
             /\ mul(Last(estack'), Last(estack)) = Last(Front(estack))

(* C5: whenever evaluate_rpn applies "/" to a right operand equal to zero  *)
(* it raises "Division by zero" itself, before the division is invoked,    *)
(* and returns nothing, whatever the left operand and however the zero was *)
(* computed; with a non-zero right operand nothing is raised and the       *)
(* quotient q, the value with q * right = left, replaces the two operands. *)
C5_DivisionByZero == [][C5_DivisionStep]_vars

(* a zero that an operator computed is divided by *)
C5_Witness ==
    /\ entry = "evaluate_rpn"
    /\ error = DivisionByZero
    /\ rpos > 3
    /\ IsOperator(rpn[rpos - 2])

----------------------------------------------------------------------------
Arity(token) == IF token = << "u" >> THEN 1 ELSE 2

(* operands on the stack after the first k tokens when none of them failed *)
Balance(r, k) ==
    Cardinality({j \in 1..k : IsNumber(r[j])})
        - Cardinality({j \in 1..k : IsOperator(r[j]) /\ Arity(r[j]) = 2})

Short(r, k) == IsOperator(r[k]) /\ Balance(r, k - 1) < Arity(r[k])
NoneShort(r, k) == \A j \in 1..k : ~Short(r, j)

BinaryRun(toks) ==
    \E k \in 2..Len(toks) :
        /\ toks[k] \in {<< "+" >>, << "*" >>}
        /\ toks[k - 1] \in {<< "+" >>, << "-" >>, << "*" >>}

PlainTokens(toks) ==
    \A k \in 1..Len(toks) : IsNumber(toks[k]) \/ toks[k] \in {<< "+" >>, << "-" >>, << "*" >>}

----------------------------------------------------------------------------
(* a text digit ^ digit ^ digit *)
IsPowerChain(e) ==
    /\ Len(e) = 5
    /\ e[1] \in Digits /\ e[2] = "^" /\ e[3] \in Digits /\ e[4] = "^" /\ e[5] \in Digits

(* C1: "^" is right-associative: a chain a^b^c without parentheses is      *)
(* converted to a b c ^ ^ and calculate returns a^(b^c).                   *)
C1_PowerRightAssociative ==
    (entry = "calculate" /\ IsPowerChain(expression) /\ pc \in {"evaluate", "done", "failed"}) =>
        /\ rpn = << << expression[1] >>, << expression[3] >>, << expression[5] >>,
                    << "^" >>, << "^" >> >>
        /\ pc = "done" =>
              result = Some(pow(FloatOf(<< expression[1] >>),
                                pow(FloatOf(<< expression[3] >>), FloatOf(<< expression[5] >>))))

----------------------------------------------------------------------------
(* The standard reading of a well-formed expression. *)

(* the positions of e[lo..hi] outside every parenthesis that hold one of ops *)
TopLevel(e, lo, hi, ops) ==
    {k \in lo..hi : e[k] \in ops
        /\ Cardinality({j \in lo..k : e[j] = "("}) = Cardinality({j \in lo..k : e[j] = ")"})}

Max(S) == CHOOSE x \in S : \A y \in S : y <= x

(* where the standard reading splits e[lo..hi]: at its last top-level + or *)
(* -, else at its last top-level * / or %; 0 when it has no such operator  *)
SplitAt(e, lo, hi) ==
    IF TopLevel(e, lo, hi, {"+", "-"}) # {} THEN Max(TopLevel(e, lo, hi, {"+", "-"}))
    ELSE IF TopLevel(e, lo, hi, {"*", "/", "%"}) # {}
    THEN Max(TopLevel(e, lo, hi, {"*", "/", "%"}))
    ELSE 0

RECURSIVE Postfix(_, _, _)
Postfix(e, lo, hi) ==
    LET k == SplitAt(e, lo, hi) IN
    IF k # 0 THEN Postfix(e, lo, k - 1) \o Postfix(e, k + 1, hi) \o << << e[k] >> >>
    ELSE IF e[lo] = "(" THEN Postfix(e, lo + 1, hi - 1)
    ELSE << SubSeq(e, lo, hi) >>

Undefined == << "undefined" >>

Meaning(op, l, r) ==
    CASE op = "+" -> add(l, r)
      [] op = "-" -> sub(l, r)
      [] op = "*" -> mul(l, r)
      [] op = "/" -> IF r = Zero THEN Undefined ELSE truediv(l, r)
      [] op = "%" -> IF r = Zero THEN Undefined ELSE mod(l, r)

RECURSIVE Value(_, _, _)
Value(e, lo, hi) ==
    LET k == SplitAt(e, lo, hi) IN
    IF k # 0
    THEN LET l == Value(e, lo, k - 1)
             r == Value(e, k + 1, hi)
         IN  IF l = Undefined \/ r = Undefined THEN Undefined ELSE Meaning(e[k], l, r)
    ELSE IF e[lo] = "(" THEN Value(e, lo + 1, hi - 1)
    ELSE Whole(DigitValue(e[lo]))

(* C2: for a well-formed expression of numbers, + - * / % and parentheses  *)
(* calculate returns the value of the standard reading: * / % bind tighter *)
(* than + -, equal precedences group from the left, a parenthesised group  *)
(* is one operand, and the left operand is the one written first; the      *)
(* conversion yields the postfix form of that reading.                     *)
C2_StandardReading ==
    entry = "calculate" =>
        /\ pc # "failed" \/ error[1] = "ZeroDivisionError"
        /\ pc \in {"evaluate", "done", "failed"} =>
              rpn = Postfix(expression, 1, Len(expression))
        /\ pc = "done" => result = Some(Value(expression, 1, Len(expression)))
        /\ pc = "failed" => Value(expression, 1, Len(expression)) = Undefined

(* 3-2-2 is (3-2)-2 *)
C2_Witness ==
    /\ expression = << "3", "-", "2", "-", "2" >>
    /\ rpn = << << "3" >>, << "2" >>, << "-" >>, << "2" >>, << "-" >> >>
    /\ result = Some(<< -1, 1 >>)

----------------------------------------------------------------------------
(* C8: calls keep no state: no call changes the precedence table or the    *)
(* operator table, output and the stacks start empty in every call, and a  *)
(* call made again with the same argument has the outcome of the first,    *)
(* whatever calls, failed or not, came in between.                         *)
C8_Stateless ==
    /\ precedence = InitPrecedence
    /\ operators = InitOperators
    /\ (pc = "convert" /\ pos = 1) => output = << >> /\ stack = << >>
    /\ (pc = "evaluate" /\ rpos = 1) => estack = << >>
    /\ (pc \in {"done", "failed"} /\ CallKey \in DOMAIN history) =>
          history[CallKey] = Outcome

(* calculate("2-3") returns -1 again after calculate("(2") failed *)
C8_Witness ==
    /\ pc = "done"
    /\ CallKey = << "calculate", << "2", "-", "3" >> >>
    /\ CallKey \in DOMAIN history
    /\ << "calculate", << "(", "2" >> >> \in DOMAIN history
    /\ stack = << >>
    /\ result = Some(<< -1, 1 >>)

=============================================================================
